---- MODULE Spec2Model ----
(***************************************************************************)
(* Instance bootstrap of the Vulkan tutorial application (src/main.rs):    *)
(* the winit ApplicationHandler (resumed / window_event), App::create,     *)
(* App::render, App::destroy, create_instance and debug_callback.          *)
(*                                                                         *)
(* Handles are natural numbers; NoHandle (0) is Option::None.  The entry   *)
(* and the instance made by the n-th call of App::create carry the id n.   *)
(***************************************************************************)
EXTENDS Integers, Sequences, FiniteSets, TLC

VARIABLES
    os,               \* cfg!(target_os): the operating system of the build
    windowSystem,     \* raw window handle kind of the winit window
    envValidation,    \* value of VK_ENABLE_VALIDATION, or Absent
    installedLayers,  \* layer names the driver enumerates
    driverVersion,    \* <<major, minor, patch>> the loader reports
    window,           \* App.window
    entry,            \* App.entry
    instance,         \* App.instance
    data,             \* App.data
    exiting,          \* ActiveEventLoop: exit() has been called
    redrawRequested,  \* Window: request_redraw() is pending
    pc,               \* "running", "panicked" (an unwrap failed), "exited"
    lastEvent,        \* the event of the handler that ran last
    renders,          \* number of App::render calls
    boots,            \* one record per call of App::create
    calls,            \* loader / driver calls, in call order
    cb                \* the last debug_callback invocation

vars == <<os, windowSystem, envValidation, installedLayers, driverVersion,
          window, entry, instance, data, exiting, redrawRequested, pc,
          lastEvent, renders, boots, calls, cb>>

appVars == <<window, entry, instance, data>>
hostVars == <<os, windowSystem, envValidation, installedLayers, driverVersion>>

-----------------------------------------------------------------------------
(* Bounds of the model *)

MaxResumed == 2
MaxDestroys == 2
MaxRenders == 2

-----------------------------------------------------------------------------
(* Constants of the program and of the Vulkan API it uses *)

NoHandle == 0
Absent == "<unset>"

PORTABILITY_MACOS_VERSION == <<1, 3, 216>>
VALIDATION_LAYER == "VK_LAYER_KHRONOS_validation"
EXT_DEBUG_UTILS_EXTENSION == "VK_EXT_debug_utils"
KHR_GET_PHYSICAL_DEVICE_PROPERTIES2_EXTENSION == "VK_KHR_get_physical_device_properties2"
KHR_PORTABILITY_ENUMERATION_EXTENSION == "VK_KHR_portability_enumeration"

\* vk::InstanceCreateFlags
FLAGS_EMPTY == 0
ENUMERATE_PORTABILITY_KHR == 1

\* vk::DebugUtilsMessageSeverityFlagsEXT
SEVERITY_VERBOSE == 1
SEVERITY_INFO == 16
SEVERITY_WARNING == 256
SEVERITY_ERROR == 4096

\* vk::DebugUtilsMessageTypeFlagsEXT
TYPE_GENERAL == 1
TYPE_VALIDATION == 2
TYPE_PERFORMANCE == 4

VK_FALSE == 0

-----------------------------------------------------------------------------
(* Inputs *)

\* (target_os, raw window handle) pairs a build of the program can see
Platforms ==
    { <<"macos", "AppKit">>, <<"windows", "Win32">>,
      <<"linux", "Wayland">>, <<"linux", "Xcb">> }

EnvValues == { Absent, "", "1", "true", "TRUE", "0", "yes" }

LayerSets ==
    { {}, {"VK_LAYER_LUNARG_api_dump"},
      {"VK_LAYER_LUNARG_api_dump", VALIDATION_LAYER} }

Versions ==
    { <<0, 9, 999>>, <<1, 2, 300>>, <<1, 3, 215>>, <<1, 3, 216>>,
      <<1, 3, 217>>, <<1, 4, 0>>, <<2, 0, 0>> }

SeverityMasks ==
    { v * SEVERITY_VERBOSE + i * SEVERITY_INFO + w * SEVERITY_WARNING
        + e * SEVERITY_ERROR : v \in 0..1, i \in 0..1, w \in 0..1, e \in 0..1 }
    \ {0}

TypeMasks == 0..(TYPE_GENERAL + TYPE_VALIDATION + TYPE_PERFORMANCE)

Messages == { "validation message" }

\* Which fallible steps of one resumed() succeed
Outcomes ==
    [ window : BOOLEAN, loader : BOOLEAN, entry : BOOLEAN,
      enumerate : BOOLEAN, version : BOOLEAN, driver : BOOLEAN ]

-----------------------------------------------------------------------------
(* Pure helpers *)

\* derive(PartialOrd) on Version { major, minor, patch }: lexicographic >=
VersionGE(a, b) ==
    \/ a[1] > b[1]
    \/ a[1] = b[1] /\ a[2] > b[2]
    \/ a[1] = b[1] /\ a[2] = b[2] /\ a[3] >= b[3]

RECURSIVE BitAnd(_, _)
BitAnd(a, b) ==
    IF a = 0 \/ b = 0 THEN 0
    ELSE (a % 2) * (b % 2) + 2 * BitAnd(a \div 2, b \div 2)

\* bitflags contains(): every bit of flag is set in mask
Contains(mask, flag) == BitAnd(mask, flag) = flag

\* vk_window::get_required_instance_extensions(window)
WindowExtensions(ws) ==
    CASE ws = "AppKit"  -> <<"VK_KHR_surface", "VK_EXT_metal_surface">>
      [] ws = "Win32"   -> <<"VK_KHR_surface", "VK_KHR_win32_surface">>
      [] ws = "Wayland" -> <<"VK_KHR_surface", "VK_KHR_wayland_surface">>
      [] ws = "Xcb"     -> <<"VK_KHR_surface", "VK_KHR_xcb_surface">>
      [] ws = "Xlib"    -> <<"VK_KHR_surface", "VK_KHR_xlib_surface">>

\* env::var("VK_ENABLE_VALIDATION").unwrap_or_else(|_| "".into())
EnvOrEmpty(v) == IF v = Absent THEN "" ELSE v

\* Mutant: any spelling of "true" enables validation
ResolveValidationAnyCase(enable) ==
    enable = "1" \/ enable = "true" \/ enable = "TRUE"

\* data.validation = enable == "1" || enable == "true"
ResolveValidation(enable) == enable = "1" \/ enable = "true"

\* Mutant: the check only notices that no layer at all is installed
LayerUnsupportedIfNone(validation, available) ==
    validation /\ available = {}

\* data.validation && !available_layers.contains(&VALIDATION_LAYER)
LayerUnsupported(validation, available) ==
    validation /\ VALIDATION_LAYER \notin available

\* let layers = if data.validation { vec![VALIDATION_LAYER] } else { Vec::new() }
Layers(validation) == IF validation THEN <<VALIDATION_LAYER>> ELSE <<>>

\* Mutant: the debug extension is pushed whatever the mode
PushDebugExtensionAlways(extensions, validation) ==
    Append(extensions, EXT_DEBUG_UTILS_EXTENSION)

\* if data.validation { extensions.push(EXT_DEBUG_UTILS_EXTENSION) }
PushDebugExtension(extensions, validation) ==
    IF validation THEN Append(extensions, EXT_DEBUG_UTILS_EXTENSION) ELSE extensions

\* cfg!(target_os = "macos") && entry.version()? >= PORTABILITY_MACOS_VERSION
NeedsPortability(targetOs, version) ==
    targetOs = "macos" /\ VersionGE(version, PORTABILITY_MACOS_VERSION)

\* the two pushes of the portability branch
PushPortabilityExtensions(extensions, portability) ==
    IF portability
    THEN extensions \o <<KHR_GET_PHYSICAL_DEVICE_PROPERTIES2_EXTENSION,
                         KHR_PORTABILITY_ENUMERATION_EXTENSION>>
    ELSE extensions

\* the value of the `let flags = if ... else ...` expression; the variable
\* is never read afterwards
CreateFlags(portability) ==
    IF portability THEN ENUMERATE_PORTABILITY_KHR ELSE FLAGS_EMPTY

\* if data.validation { info = info.push_next(&mut debug_info) }
ChainDebugInfo(validation) == validation

\* vk::InstanceCreateInfo::builder() with application_info,
\* enabled_layer_names and enabled_extension_names set: .flags() is not
\* called, so the flags of the request are the builder's default (empty)
InstanceCreateInfo(layers, extensions, chained) ==
    [layers |-> layers, extensions |-> extensions, flags |-> FLAGS_EMPTY,
     chained |-> chained]

NoRequest == [layers |-> <<>>, extensions |-> <<>>, flags |-> FLAGS_EMPTY, chained |-> FALSE]

Call(b, op, ok, handle) == [boot |-> b, op |-> op, ok |-> ok, handle |-> handle]

\* create_instance(window, entry, data), called by the b-th App::create.
\* Result: what it returns, the request it handed to the driver (if it got
\* that far) and the driver calls it made.
CreateInstance(b, ws, targetOs, validation, available, version, out) ==
    LET cEnum == <<Call(b, "enumerate_instance_layer_properties", out.enumerate, NoHandle)>>
        failed(res, cs) ==
            [result |-> res, issued |-> FALSE, request |-> NoRequest, calls |-> cs]
    IN  IF ~out.enumerate THEN failed("ErrEnumerateLayers", cEnum)
        ELSE IF LayerUnsupported(validation, available)
        THEN failed("ErrValidationUnsupported", cEnum)
        ELSE
        LET layers == Layers(validation)
            ext1 == PushDebugExtension(WindowExtensions(ws), validation)
            \* && short-circuits: the version is queried on macOS only
            queried == targetOs = "macos"
            cVer == IF queried
                    THEN cEnum \o <<Call(b, "version", out.version, NoHandle)>>
                    ELSE cEnum
        IN  IF queried /\ ~out.version THEN failed("ErrVersion", cVer)
            ELSE
            LET portability == NeedsPortability(targetOs, version)
                extensions == PushPortabilityExtensions(ext1, portability)
                flags == CreateFlags(portability)   \* computed, not passed on
                request == InstanceCreateInfo(layers, extensions,
                                              ChainDebugInfo(validation))
                cAll == cVer \o <<Call(b, "create_instance", out.driver,
                                       IF out.driver THEN b ELSE NoHandle)>>
            IN  [result |-> IF out.driver THEN "Ok" ELSE "ErrDriver",
                 issued |-> TRUE, request |-> request, calls |-> cAll]

\* App::create, the b-th call.  Result: the fields of self afterwards, the
\* record of this bootstrap and the calls made.
Create(b, out) ==
    LET cLoad == <<Call(b, "LibloadingLoader::new", out.loader, NoHandle)>>
        boot(validation, res, issued, request) ==
            [validation |-> validation, result |-> res, issued |-> issued,
             request |-> request]
    IN  IF ~out.loader
        THEN [entry |-> entry, instance |-> instance, calls |-> cLoad,
              boot |-> boot(FALSE, "ErrLoader", FALSE, NoRequest)]
        ELSE
        LET validation == ResolveValidation(EnvOrEmpty(envValidation))
            cEntry == cLoad \o <<Call(b, "Entry::new", out.entry,
                                      IF out.entry THEN b ELSE NoHandle)>>
        IN  IF ~out.entry
            THEN [entry |-> entry, instance |-> instance, calls |-> cEntry,
                  boot |-> boot(validation, "ErrEntry", FALSE, NoRequest)]
            ELSE
            \* self.entry = Some(..) is assigned before create_instance runs
            LET ci == CreateInstance(b, windowSystem, os, validation,
                                     installedLayers, driverVersion, out)
            IN  [entry |-> b,
                 instance |-> IF ci.result = "Ok" THEN b ELSE instance,
                 calls |-> cEntry \o ci.calls,
                 boot |-> boot(validation, ci.result, ci.issued, ci.request)]

\* Mutant: the warning test comes after the info test
LogLevelInfoFirst(severity) ==
    IF Contains(severity, SEVERITY_ERROR) THEN "error"
    ELSE IF Contains(severity, SEVERITY_INFO) THEN "debug"
    ELSE IF Contains(severity, SEVERITY_WARNING) THEN "warn"
    ELSE "trace"

\* the if / else-if chain of debug_callback
LogLevel(severity) ==
    IF Contains(severity, SEVERITY_ERROR) THEN "error"
    ELSE IF Contains(severity, SEVERITY_WARNING) THEN "warn"
    ELSE IF Contains(severity, SEVERITY_INFO) THEN "debug"
    ELSE "trace"

\* "{:?}" of the type flags: the names of the bits that are set, in bit order
FormatType(type_) ==
    (IF Contains(type_, TYPE_GENERAL) THEN <<"GENERAL">> ELSE <<>>)
    \o (IF Contains(type_, TYPE_VALIDATION) THEN <<"VALIDATION">> ELSE <<>>)
    \o (IF Contains(type_, TYPE_PERFORMANCE) THEN <<"PERFORMANCE">> ELSE <<>>)

\* debug_callback: the log records it emits and the value it returns
DebugCallbackResult(severity, type_, message) ==
    [records |-> << [level |-> LogLevel(severity),
                     category |-> FormatType(type_),
                     message |-> message] >>,
     ret |-> VK_FALSE]

\* guard of the RedrawRequested arm: `if !event_loop.exiting()`
ShouldRender(isExiting) == ~isExiting

DestroyCalls == { i \in DOMAIN calls : calls[i].op = "destroy_instance" }

-----------------------------------------------------------------------------
(* Initial state: main() up to event_loop.run_app(&mut App::default()) *)

NoCallback ==
    [invoked |-> FALSE, severity |-> 0, type_ |-> 0, records |-> <<>>, ret |-> VK_FALSE]

Init ==
    /\ \E p \in Platforms : os = p[1] /\ windowSystem = p[2]
    /\ envValidation \in EnvValues
    /\ installedLayers \in LayerSets
    /\ driverVersion \in Versions
    /\ window = NoHandle
    /\ entry = NoHandle
    /\ instance = NoHandle
    /\ data = [validation |-> FALSE]
    /\ exiting = FALSE
    /\ redrawRequested = FALSE
    /\ pc = "running"
    /\ lastEvent = "none"
    /\ renders = 0
    /\ boots = <<>>
    /\ calls = <<>>
    /\ cb = NoCallback

-----------------------------------------------------------------------------
(* Handlers *)

\* ApplicationHandler::resumed: create the window, then App::create, and
\* unwrap both results
Resumed ==
    /\ pc = "running"
    /\ Len(boots) < MaxResumed
    /\ lastEvent' = "resumed"
    /\ \E out \in Outcomes :
         IF ~out.window
         THEN /\ pc' = "panicked"
              /\ UNCHANGED <<appVars, boots, calls>>
         ELSE LET b == Len(boots) + 1
                  r == Create(b, out)
              IN  /\ window' = b
                  /\ entry' = r.entry
                  /\ instance' = r.instance
                  /\ data' = data
                  /\ boots' = Append(boots, r.boot)
                  /\ calls' = calls \o r.calls
                  /\ pc' = IF r.boot.result = "Ok" THEN "running" ELSE "panicked"
    /\ UNCHANGED <<hostVars, exiting, redrawRequested, renders, cb>>

\* window_event, WindowEvent::CloseRequested: event_loop.exit(), App::destroy
CloseRequested ==
    /\ pc = "running"
    /\ window # NoHandle
    /\ Cardinality(DestroyCalls) < MaxDestroys
    /\ lastEvent' = "CloseRequested"
    /\ exiting' = TRUE
    /\ IF instance = NoHandle
       THEN pc' = "panicked" /\ UNCHANGED calls
       ELSE /\ calls' = Append(calls, Call(0, "destroy_instance", TRUE, instance))
            /\ UNCHANGED pc
    /\ UNCHANGED <<hostVars, appVars, redrawRequested, renders, boots, cb>>

\* window_event, WindowEvent::RedrawRequested: App::render and
\* request_redraw() unless the loop is exiting
RedrawRequested ==
    /\ pc = "running"
    /\ window # NoHandle
    /\ lastEvent' = "RedrawRequested"
    /\ IF ShouldRender(exiting)
       THEN /\ renders < MaxRenders
            /\ renders' = renders + 1
            /\ redrawRequested' = TRUE
       ELSE /\ redrawRequested' = FALSE
            /\ UNCHANGED renders
    /\ UNCHANGED <<hostVars, appVars, exiting, pc, boots, calls, cb>>

\* window_event, any other event: `_ => ()`
OtherEvent ==
    /\ pc = "running"
    /\ window # NoHandle
    /\ lastEvent' = "other"
    /\ UNCHANGED <<hostVars, appVars, exiting, redrawRequested, pc, renders,
                   boots, calls, cb>>

\* run_app returns once exit() has been called
LoopExit ==
    /\ pc = "running"
    /\ exiting
    /\ pc' = "exited"
    /\ UNCHANGED <<hostVars, appVars, exiting, redrawRequested, lastEvent,
                   renders, boots, calls, cb>>

\* The driver calls debug_callback from inside create_instance (and
\* destroy_instance) once it has been handed a creation request with the
\* chained debug descriptor, whether or not that creation succeeds.  The
\* callback touches nothing of the controller, so it is taken as a step of
\* its own after the handler step whose driver call it belongs to, also
\* when that handler ended in a panic or the loop has been left since.
DebugCallback ==
    /\ \E i \in DOMAIN calls :
          /\ calls[i].op = "create_instance"
          /\ boots[calls[i].boot].request.chained
    /\ \E severity \in SeverityMasks, type_ \in TypeMasks, message \in Messages :
         LET r == DebugCallbackResult(severity, type_, message)
         IN  cb' = [invoked |-> TRUE, severity |-> severity, type_ |-> type_,
                    records |-> r.records, ret |-> r.ret]
    /\ UNCHANGED <<hostVars, appVars, exiting, redrawRequested, pc, lastEvent,
                   renders, boots, calls>>

Next ==
    \/ Resumed
    \/ CloseRequested
    \/ RedrawRequested
    \/ OtherEvent
    \/ LoopExit

Spec == Init /\ [][Next]_vars

\* The diagnostics bridge.  The debug descriptor is chained to the creation
\* request only, so the driver calls back around the two instance calls,
\* which resumed and CloseRequested make; one platform, validation requested
\* or not.
InitBridge ==
    /\ Init
    /\ os = "linux" /\ windowSystem = "Xcb"
    /\ envValidation \in {"1", "0"}
    /\ installedLayers = {"VK_LAYER_LUNARG_api_dump", VALIDATION_LAYER}
    /\ driverVersion = <<1, 3, 216>>

NextBridge ==
    \/ Resumed
    \/ CloseRequested
    \/ DebugCallback

SpecBridge == InitBridge /\ [][NextBridge]_vars

-----------------------------------------------------------------------------
(* Derived views of the state *)

Range(s) == { s[i] : i \in DOMAIN s }
Count(s, x) == Cardinality({ i \in DOMAIN s : s[i] = x })

CallsOf(b, op) == { i \in DOMAIN calls : calls[i].boot = b /\ calls[i].op = op }

\* Debug messengers the controller registered / released.  App has no field
\* for one and neither App::create nor App::destroy makes these calls.
MessengersCreated ==
    { i \in DOMAIN calls : calls[i].op = "create_debug_utils_messenger_ext" }
MessengersReleased ==
    { i \in DOMAIN calls : calls[i].op = "destroy_debug_utils_messenger_ext" }

\* The lifecycle state, read off App.instance and the destroy calls
ControllerState ==
    IF instance = NoHandle THEN "Uninitialized"
    ELSE IF \E i \in DestroyCalls : calls[i].handle = instance THEN "Destroyed"
    ELSE "Live"

-----------------------------------------------------------------------------
(* Claims *)

\* C1: with validation enabled, every destruction of an instance is preceded
\* by the release of the diagnostics handle (the release occurs, and first).
C1_DiagnosticsReleasedFirst ==
    \A i \in DestroyCalls :
        boots[calls[i].handle].validation =>
            \E j \in MessengersReleased : j < i

\* C2: create() runs once only (from Uninitialized), so at most one instance
\* is ever created, and no instance is destroyed more than once.
C2_OneCreateOneDestroy ==
    /\ Len(boots) <= 1
    /\ Cardinality({ b \in DOMAIN boots : boots[b].result = "Ok" }) <= 1
    /\ \A i, j \in DestroyCalls : calls[i].handle = calls[j].handle => i = j

\* C3: while the controller is Live it holds a diagnostics handle exactly
\* when validation was resolved to true.
C3_DiagnosticsIffValidation ==
    ControllerState = "Live" =>
        ((MessengersCreated # {}) <=> boots[instance].validation)

\* C4: when validation is on and the enumerated layer list lacks the
\* validation layer, create_instance fails with the layer error and makes no
\* driver instance-creation call.
C4_MissingLayerFailsBeforeDriver ==
    \A b \in DOMAIN boots :
        ( /\ boots[b].validation
          /\ \E i \in CallsOf(b, "enumerate_instance_layer_properties") : calls[i].ok
          /\ VALIDATION_LAYER \notin installedLayers )
        => /\ boots[b].result = "ErrValidationUnsupported"
           /\ ~boots[b].issued
           /\ CallsOf(b, "create_instance") = {}

C4_Witness ==
    \E b \in DOMAIN boots :
        /\ boots[b].validation
        /\ installedLayers = {"VK_LAYER_LUNARG_api_dump"}
        /\ boots[b].result = "ErrValidationUnsupported"

\* C5: the debug extension and the validation layer are in the request
\* handed to the driver exactly when validation is on; with validation on,
\* the layer installed and another OS than macOS, create_instance reaches the
\* driver with extensions = window extensions then the debug extension,
\* layers = the validation layer, no flags, and succeeds if the driver does.
C5_DebugCapabilitiesIffValidation ==
    \A b \in DOMAIN boots :
        LET r == boots[b].request IN
        /\ boots[b].issued =>
             /\ (EXT_DEBUG_UTILS_EXTENSION \in Range(r.extensions)) <=> boots[b].validation
             /\ (VALIDATION_LAYER \in Range(r.layers)) <=> boots[b].validation
        /\ ( /\ boots[b].validation
             /\ os # "macos"
             /\ VALIDATION_LAYER \in installedLayers
             /\ \E i \in CallsOf(b, "enumerate_instance_layer_properties") : calls[i].ok )
           => /\ boots[b].issued
              /\ r.extensions = WindowExtensions(windowSystem) \o <<EXT_DEBUG_UTILS_EXTENSION>>
              /\ r.layers = <<VALIDATION_LAYER>>
              /\ r.flags = FLAGS_EMPTY
              /\ \A i \in CallsOf(b, "create_instance") :
                    calls[i].ok <=> boots[b].result = "Ok"

C5_Witness ==
    \E b \in DOMAIN boots :
        /\ boots[b].validation
        /\ os = "linux"
        /\ boots[b].result = "Ok"
        /\ Len(boots[b].request.extensions) = 3

\* C6: the two portability extensions and the portability flag are in the
\* request once each when the OS is macOS and the version is 1.3.216 or
\* later, and absent otherwise, whatever the mode, layers and window.
C6_PortabilityIffMacosAtThreshold ==
    \A b \in DOMAIN boots :
        boots[b].issued =>
            LET r == boots[b].request
                v == driverVersion
                expected ==
                    /\ os = "macos"
                    /\ (v[1] * 1000000 + v[2] * 1000 + v[3]) >= 1003216
                n == IF expected THEN 1 ELSE 0
            IN  /\ Count(r.extensions, KHR_GET_PHYSICAL_DEVICE_PROPERTIES2_EXTENSION) = n
                /\ Count(r.extensions, KHR_PORTABILITY_ENUMERATION_EXTENSION) = n
                /\ r.flags = (IF expected THEN ENUMERATE_PORTABILITY_KHR ELSE FLAGS_EMPTY)

\* C7: a create() that fails leaves nothing behind: no handle made by the
\* failed attempt is held, a first create() that fails leaves the controller
\* Uninitialized with no entry and no instance, and no step was retried.
C7_FailedCreateRetainsNothing ==
    \A b \in DOMAIN boots :
        boots[b].result # "Ok" =>
            /\ entry # b
            /\ instance # b
            /\ b = 1 => (entry = NoHandle /\ instance = NoHandle)
            /\ \A i, j \in DOMAIN calls :
                  (calls[i].boot = b /\ calls[j].boot = b /\ calls[i].op = calls[j].op)
                  => i = j

\* C8: one invocation of debug_callback emits exactly one record, at level
\* error / warn / debug / trace for the most severe tier in the mask
\* (error, warning, info, verbose), returns VK_FALSE and changes nothing of
\* the controller.
C8_CallbackForwardsOneRecord ==
    [][ cb' # cb =>
          /\ UNCHANGED <<appVars, exiting, redrawRequested, pc, boots, calls>>
          /\ cb'.invoked
          /\ Len(cb'.records) = 1
          /\ cb'.records[1].level =
                (IF cb'.severity >= 4096 THEN "error"
                 ELSE IF cb'.severity >= 256 THEN "warn"
                 ELSE IF cb'.severity >= 16 THEN "debug"
                 ELSE "trace")
          /\ cb'.ret = 0 ]_vars

C8_Witness ==
    /\ cb.invoked
    /\ cb.severity = SEVERITY_VERBOSE + SEVERITY_INFO + SEVERITY_WARNING
    /\ cb.records[1].level = "warn"
    /\ ControllerState = "Live"

\* C9: validation is on exactly when VK_ENABLE_VALIDATION is "1" or "true",
\* and the layer check, the layer list, the debug extension and the chained
\* debug descriptor of one bootstrap all follow that one value.
C9_ValidationResolvedOnce ==
    \A b \in DOMAIN boots :
        LET expected == envValidation \in {"1", "true"}
            r == boots[b].request
        IN  /\ boots[b].result # "ErrLoader" => (boots[b].validation <=> expected)
            /\ boots[b].result = "ErrValidationUnsupported" => expected
            /\ boots[b].issued =>
                 /\ expected => VALIDATION_LAYER \in installedLayers
                 /\ (r.layers # <<>>) <=> expected
                 /\ (EXT_DEBUG_UTILS_EXTENSION \in Range(r.extensions)) <=> expected
                 /\ r.chained <=> expected

C9_Witness ==
    /\ envValidation = "true"
    /\ \E b \in DOMAIN boots : boots[b].issued /\ boots[b].request.chained

\* C10: no handle is used outside the Live state: render and destroy run
\* only while the controller is Live (after a create() that succeeded and
\* before any destroy of that instance), render never runs after a destroy
\* has begun (a redraw delivered then renders nothing), and a render leaves
\* window, entry, instance and data unchanged.
C10_NoHandleUseOutsideLive ==
    [][ /\ renders' # renders =>
             /\ ControllerState = "Live"
             /\ boots[instance].result = "Ok"
             /\ DestroyCalls = {}
             /\ UNCHANGED appVars
        /\ Len(calls') > Len(calls) /\ calls'[Len(calls')].op = "destroy_instance" =>
             /\ ControllerState = "Live"
             /\ boots[instance].result = "Ok"
        /\ (lastEvent' = "RedrawRequested" /\ DestroyCalls # {}) =>
             renders' = renders ]_vars

====
